---------------------------- MODULE Spec2Model ----------------------------
(***************************************************************************)
(* Model of the PERIDOT host bridge simulator (src/src/index.ts, the class *)
(* PeridotHostBridgeModule of lines 329-838): the serial receive chain,    *)
(* the Avalon-ST packet deframer and framer, the I2C/EEPROM emulation      *)
(* driven by configuration command bytes, and the Avalon-MM transaction    *)
(* processor with its asynchronous memory-master accesses.                 *)
(***************************************************************************)
EXTENDS Integers, Sequences, FiniteSets, TLC

(***************************************************************************)
(* Bounds of the model.                                                    *)
(***************************************************************************)
\* Largest number of bytes the transport hands over in one "data" event.
MaxChunk == 2
\* Largest number of "data" events waiting on the receive promise chain.
MaxQueue == 2
\* Largest number of units the memory master returns for one read call.
MaxServe == 2

(***************************************************************************)
(* Program constants.                                                      *)
(***************************************************************************)
EEPROM_SLAVE_ADDR == 80
EEPROM_SIZE == 256
LAST_COMMAND_INIT == 57
I2C_DRIVE_RELEASE == 48
I2C_DRIVE_ACK == 16
I2C_IDLE == -2
I2C_START == -1
CMD_PREFIX == 58
ESCAPE3 == 61
CH_PREFIX == 124
SOP == 122
EOP == 123
ESCAPE7 == 125
STATUS_BITS == 7
HEADER_LEN == 8
UNSUPPORTED == 255
RESP_CHANNEL == 0

(***************************************************************************)
(* Bytes and bit operations on them (JavaScript &, |, ^, <<, >>).          *)
(***************************************************************************)
Byte == 0..255

Bit(b, k) == (b \div (2^k)) % 2

And8(a, b) ==
  LET f[k \in 0..8] == IF k = 8 THEN 0 ELSE Bit(a, k) * Bit(b, k) * (2^k) + f[k + 1]
  IN  f[0]

Or8(a, b) ==
  LET f[k \in 0..8] ==
        IF k = 8 THEN 0
        ELSE (IF Bit(a, k) + Bit(b, k) > 0 THEN 2^k ELSE 0) + f[k + 1]
  IN  f[0]

Xor8(a, b) ==
  LET f[k \in 0..8] ==
        IF k = 8 THEN 0
        ELSE (IF Bit(a, k) # Bit(b, k) THEN 2^k ELSE 0) + f[k + 1]
  IN  f[0]

Min(a, b) == IF a < b THEN a ELSE b

\* Bytes lo..hi of a sequence (Buffer.slice); empty when hi < lo.
Slice(q, lo, hi) == [i \in 1..(IF hi < lo THEN 0 ELSE hi - lo + 1) |-> q[lo + i - 1]]

\* Big-endian number held in bytes q[from+1 .. from+n] (0-based offset from).
ReadBE(q, from, n) ==
  LET f[i \in 0..n] == IF i = 0 THEN 0 ELSE f[i - 1] * 256 + q[from + i]
  IN  f[n]

(***************************************************************************)
(* The EEPROM image built by load().                                       *)
(***************************************************************************)
EEP_HEADER == <<74, 55, 87, 2>>
DEFAULT_BID == <<74, 55, 50, 88>>
DEFAULT_SID == <<83, 73, 77, 85, 76, 65, 84, 68, 72, 79, 83, 84, 66, 82, 73, 68, 71, 69>>
PAD_CHAR == 95

\* `${(program.swiBid || "J72X")}____}`.substr(0, 4)
BoardId(opt) ==
  LET given  == IF Len(opt) = 0 THEN DEFAULT_BID ELSE opt
      padded == given \o <<PAD_CHAR, PAD_CHAR, PAD_CHAR, PAD_CHAR>>
  IN  SubSeq(padded, 1, 4)

\* this._eepData after load(): header at 0, board id at 4, serial id at 8.
\* Only the bytes load() sets are held, byte a at index a + 1; the rest of
\* the EEPROM_SIZE bytes are the zeros of new Uint8Array(256).
EepImage(bidOpt) == EEP_HEADER \o BoardId(bidOpt) \o DEFAULT_SID

\* this._eepData[a]: undefined past the end of the array.
Undefined == -1
EepAt(data, a) ==
  IF a < Len(data) THEN data[a + 1]
  ELSE IF a < EEPROM_SIZE THEN 0
  ELSE Undefined

(***************************************************************************)
(* The memory master m1 (an external collaborator): a window of mapped     *)
(* bytes; an access outside it finds no slave.                             *)
(***************************************************************************)
MemWindow == 4096..4103

Mapped(a) == a \in MemWindow

MemInit == [a \in MemWindow |-> (a * 37 + 11) % 256]

(***************************************************************************)
(* State.                                                                  *)
(***************************************************************************)
VARIABLES
  chain,        \* _receivePromise: the "data" callbacks not yet resolved
  rejected,     \* _receivePromise has been rejected by a thrown error
  nread,        \* number of bytes of the input the transport has delivered
  receiver,     \* _receiver: "null", "packet", "command" or "channel"
  escaped3,     \* _escaped3
  escaped7,     \* _escaped7
  channel,      \* _channel
  packets,      \* _packets: channel -> open packet buffer
  lastCommand,  \* _lastCommand
  i2cByte,      \* _i2cByte
  i2cDrive,     \* _i2cDrive
  i2cState,     \* _i2cState
  i2cWrite,     \* _i2cWrite
  eepAddr,      \* _eepAddr
  eepData,      \* _eepData
  out,          \* the calls of _serial.write, in order
  mem,          \* the bytes behind the memory master
  acc,          \* the calls of m1.write32/write8/read32/read8, in order
  disp,         \* the packets handed to _processPacket, in order
  trace,        \* the bytes handled so far, each with the receiver that took it
  scn,          \* the run's configuration and the input the host sends
  csr,          \* the fields behind the registers of s1 (_led, _message, ...)
  irq,          \* the interrupt sender avsirq: "initial" until the first call of
                \* assert() or deassert(), then "asserted" or "deasserted"
  call          \* the last call of s1.readReg / s1.writeReg and its result

vars == <<chain, rejected, nread, receiver, escaped3, escaped7, channel,
          packets, lastCommand, i2cByte, i2cDrive, i2cState, i2cWrite, eepAddr,
          eepData, out, mem, acc, disp, trace, scn, csr, irq, call>>

\* The object's fields as one record, the `this` of the handlers below.
Self ==
  [receiver |-> receiver, escaped3 |-> escaped3, escaped7 |-> escaped7,
   channel |-> channel, packets |-> packets, lastCommand |-> lastCommand,
   i2cByte |-> i2cByte, i2cDrive |-> i2cDrive, i2cState |-> i2cState,
   i2cWrite |-> i2cWrite, eepAddr |-> eepAddr, eepData |-> eepData,
   out |-> out, mem |-> mem, acc |-> acc, disp |-> disp, trace |-> trace]

\* The locals of one _processPacket call (its closure), none when kind = "none".
NoTxn ==
  [kind |-> "none", type |-> 0, incl |-> TRUE, addr |-> 0, size |-> 0, ofst |-> 0,
   resp |-> <<>>, packet |-> <<>>, reqch |-> 0, width |-> 0, count |-> 0]

\* What a handler leaves behind: the fields, whether it threw, and the
\* transaction whose memory access is now pending.
Done(w) == [w |-> w, threw |-> FALSE, txn |-> NoTxn]
\* A handler whose error is swallowed: the chain goes on.
ThrowIgnored(w) == [w |-> w, threw |-> FALSE, txn |-> NoTxn]
\* The handler threw: the promise of its callback is rejected.
Throw(w) == [w |-> w, threw |-> TRUE, txn |-> NoTxn]
Pending(w, txn) == [w |-> w, threw |-> FALSE, txn |-> txn]

\* NaN, the value of ofst after `undefined += len`.
NaN == -1
\* ToIntegerOrInfinity of TypedArray.prototype.set: undefined and NaN are 0.
ToIndex(x) == IF x = NaN THEN 0 ELSE x
JsAdd(x, n) == IF x = NaN THEN NaN ELSE x + n

(***************************************************************************)
(* _sendPacket                                                             *)
(***************************************************************************)
IsControl(b) == b \in {SOP, EOP, CH_PREFIX, ESCAPE7}

\* The switch without its escaping cases.
EncodeByteRaw(b) == <<b>>

\* The bytes of one payload byte on the wire (switch of lines 736-746).
EncodeByte(b) == IF IsControl(b) THEN <<ESCAPE7, Xor8(b, 32)>> ELSE <<b>>

\* encoded.slice(0, n) of _sendPacket.
Encode(ch, data) ==
  LET f[i \in 0..Len(data)] ==
        IF i = 0 THEN <<CH_PREFIX, ch % 256, SOP>>
        ELSE f[i - 1] \o (IF i = Len(data) THEN <<EOP>> ELSE <<>>) \o EncodeByte(data[i])
  IN  f[Len(data)]

\* One entry of the output: the bytes of one _serial.write call, with the
\* input byte that caused it and, for a response packet, its request.
OutCmd(at, b) ==
  [at |-> at, kind |-> "cmd", bytes |-> <<b>>, chan |-> 0, data |-> <<>>,
   req |-> <<>>, reqch |-> 0]
OutPkt(at, ch, data, txn) ==
  [at |-> at, kind |-> "pkt", bytes |-> Encode(ch, data), chan |-> ch, data |-> data,
   req |-> txn.packet, reqch |-> txn.reqch]

SendPacket(w, ch, data, txn, at) ==
  [w EXCEPT !.out = Append(@, OutPkt(at, ch, data, txn))]

(***************************************************************************)
(* _processPacket                                                          *)
(***************************************************************************)
\* The condition without its test of the remaining count.
WideAlignedOnly(txn) == txn.addr % 4 = 0

\* The condition of lines 665 and 689: a 4-byte access is possible.
Wide(txn) == (txn.size >= 4) /\ (txn.addr % 4 = 0)

\* One entry of the access log.
Access(op, addr, width, bytes, count, at) ==
  [op |-> op, addr |-> addr, width |-> width, bytes |-> bytes, count |-> count, at |-> at]

\* m1.write32 / m1.write8: the bytes land in memory where a slave is mapped.
MemWrite(m, addr, bytes) ==
  [a \in DOMAIN m |->
     IF a >= addr /\ a < addr + Len(bytes) THEN bytes[a - addr + 1] ELSE m[a]]

\* The closure write() of lines 663-678 up to the call of the master: it
\* throws a RangeError when the payload ends before the bytes it reads.
WriteUnit(w, txn, at) ==
  LET width == IF Wide(txn) THEN 4 ELSE 1
  IN  IF txn.ofst + width > Len(txn.packet) THEN Throw(w)
      ELSE LET bytes == Slice(txn.packet, txn.ofst + 1, txn.ofst + width)
           IN  Pending(
                 [w EXCEPT !.acc = Append(@, Access("write", txn.addr, width, bytes, 1, at)),
                           !.mem = MemWrite(@, txn.addr, bytes)],
                 [txn EXCEPT !.addr = IF txn.incl THEN @ + width ELSE @,
                             !.size = @ - width,
                             !.ofst = @ + width,
                             !.width = width,
                             !.count = 1])

\* The closure read() of lines 687-693 up to the call of the master.
ReadUnit(w, txn, at) ==
  LET width == IF Wide(txn) THEN 4 ELSE 1
      count == IF Wide(txn) THEN txn.size - (txn.size % 4) ELSE txn.size
  IN  Pending(
        [w EXCEPT !.acc = Append(@, Access("read", txn.addr, width, <<>>, count, at))],
        [txn EXCEPT !.width = width, !.count = count])

\* The channel _processPacket passes to _sendPacket (lines 679, 711, 715).
ResponseChannel(txn) == RESP_CHANNEL

\* The callback of line 677, run when the master's write has resolved.
WriteResolved(w, txn, at) ==
  IF txn.size > 0 THEN WriteUnit(w, txn, at)
  ELSE Done(SendPacket(w, ResponseChannel(txn), txn.resp, txn, at))

\* The offset resp.set writes at (line 704).
RespOffset(txn) == ToIndex(txn.ofst)

\* resp.set(bytes, offset)
BufSet(buf, bytes, offset) ==
  [i \in 1..Len(buf) |->
     IF i > offset /\ i <= offset + Len(bytes) THEN bytes[i - offset] ELSE buf[i]]

\* The callback of lines 695-709, run when the master's read has resolved
\* with `served` units (-1: no slave, the master returned nothing).
ReadResolved(w, txn, served, at) ==
  LET unit  == IF Wide(txn) THEN 4 ELSE 1
      have  == IF served < 0 THEN unit ELSE served * txn.width
      len   == Min(have, txn.size)
      bytes == [i \in 1..len |->
                  IF served < 0 THEN 0
                  ELSE IF Mapped(txn.addr + i - 1) THEN w.mem[txn.addr + i - 1] ELSE 0]
      next  == [txn EXCEPT !.resp = BufSet(@, bytes, RespOffset(txn)),
                           !.addr = IF txn.incl THEN @ + len ELSE @,
                           !.size = @ - len,
                           !.ofst = JsAdd(@, len)]
  IN  IF next.size > 0 THEN ReadUnit(w, next, at)
      ELSE Done(SendPacket(w, ResponseChannel(next), next.resp, next, at))

\* Every type code below 0x20 taken as a transaction.
IsTransactionLoose(type) == type < 32

\* The case labels of lines 654, 657, 680 and 683.
IsTransaction(type) == type \in {0, 4, 16, 20}

\* _processPacket up to its first suspension; `junk` is what the
\* Buffer.allocUnsafe of line 686 holds before it is written.
ProcessPacket(w, packet, junk, at) ==
  LET type == packet[1]
      w1   == [w EXCEPT !.disp = Append(@, [at |-> at, chan |-> w.channel, bytes |-> packet])]
      base == [NoTxn EXCEPT !.type = type, !.packet = packet, !.reqch = w.channel]
  IN  IF IsTransaction(type)
      THEN IF Len(packet) < HEADER_LEN THEN Throw(w1)
           ELSE LET addr == ReadBE(packet, 4, 4)
                    size == ReadBE(packet, 2, 2)
                IN  IF type \in {0, 4}
                    THEN WriteUnit(w1,
                           [base EXCEPT !.kind = "write", !.incl = (type = 4),
                                        !.addr = addr, !.size = size, !.ofst = HEADER_LEN,
                                        !.resp = <<Xor8(type, 128), 0, size \div 256, size % 256>>],
                           at)
                    ELSE ReadUnit(w1,
                           [base EXCEPT !.kind = "read", !.incl = (type = 20),
                                        !.addr = addr, !.size = size, !.ofst = NaN,
                                        !.resp = [i \in 1..size |-> junk]],
                           at)
      ELSE Done(SendPacket(w1, ResponseChannel(base), <<UNSUPPORTED, 0, 0, 0>>, base, at))

(***************************************************************************)
(* _recvCommand                                                            *)
(***************************************************************************)
\* One entry of the trace: input byte number `at`, its value, the receiver
\* that took it ("prefix" for the command prefix), the byte the deframer
\* saw after the outer escape (-1: none), whether a packet was open on the
\* active channel, whether the inner escape was pending, and the value
\* appended to the packet (-1: none).
Handled(at, byte, recv, eff, open, esc7, pushed) ==
  [at |-> at, byte |-> byte, recv |-> recv, eff |-> eff, open |-> open,
   esc7 |-> esc7, pushed |-> pushed]

\* The bit counted from the least significant end.
BitLsbFirst(v, bit) == IF v = Undefined THEN 0 ELSE Bit(v, bit)

\* Bit `bit` of a byte counted from its most significant bit; >> turns
\* undefined into 0.
BitMsbFirst(v, bit) == IF v = Undefined THEN 0 ELSE Bit(v, 7 - bit)

\* (this._eepData[this._eepAddr] >> (7 - bit)) & 1
EepBit(w, bit) == BitMsbFirst(EepAt(w.eepData, w.eepAddr), bit)

\* The address cursor after ++this._eepAddr (line 604).
NextEepAddr(a) == a + 1

\* The comparison without the shift that drops the direction bit.
AddrMatchUnshifted(b) == b = EEPROM_SLAVE_ADDR

\* The address comparison of line 581.
AddrMatch(b) == (b \div 2) = EEPROM_SLAVE_ADDR

\* Every data byte of a write taken as the cursor.
LatchesCursorAlways(st) == TRUE

\* The ninth-bit slot at counter st ends the first data byte of a write
\* (line 591): the shift register becomes the address cursor.
LatchesCursor(st) == st < 18

\* Falling clock edge (lines 577-609).
ClockFall(w) ==
  LET st == w.i2cState + 1
  IN  IF st < 8 THEN [w EXCEPT !.i2cState = st, !.i2cDrive = I2C_DRIVE_RELEASE]
      ELSE IF st = 8
      THEN IF AddrMatch(w.i2cByte)
           THEN [w EXCEPT !.i2cState = st, !.i2cDrive = I2C_DRIVE_ACK,
                          !.i2cWrite = (w.i2cByte % 2 = 0)]
           ELSE [w EXCEPT !.i2cState = I2C_IDLE, !.i2cDrive = I2C_DRIVE_RELEASE,
                          !.i2cWrite = (w.i2cByte % 2 = 0)]
      ELSE IF w.i2cWrite
      THEN IF st % 9 = 8
           THEN [w EXCEPT !.i2cState = st, !.i2cDrive = I2C_DRIVE_ACK,
                          !.eepAddr = IF LatchesCursor(st) THEN w.i2cByte ELSE @]
           ELSE [w EXCEPT !.i2cState = st, !.i2cDrive = I2C_DRIVE_RELEASE]
      ELSE IF st % 9 = 8
           THEN [w EXCEPT !.i2cState = st, !.i2cDrive = I2C_DRIVE_RELEASE,
                          !.eepAddr = NextEepAddr(@)]
           ELSE [w EXCEPT !.i2cState = st,
                          !.i2cDrive = I2C_DRIVE_ACK + 32 * EepBit(w, st % 9)]

\* The data edge without the release of the bus that ends it.
DataEdgeHeld(w, byte) ==
  IF Bit(byte, 5) = 1
  THEN [w EXCEPT !.i2cState = I2C_IDLE]
  ELSE [w EXCEPT !.i2cState = I2C_START, !.i2cByte = 0]

\* Data edge while the clock is high (lines 612-621): STOP on a rising
\* edge, START on a falling one; both release the bus.
DataEdge(w, byte) ==
  IF Bit(byte, 5) = 1
  THEN [w EXCEPT !.i2cState = I2C_IDLE, !.i2cDrive = I2C_DRIVE_RELEASE]
  ELSE [w EXCEPT !.i2cState = I2C_START, !.i2cByte = 0,
                 !.i2cDrive = I2C_DRIVE_RELEASE]

\* The I2C emulation of lines 569-622 for one command byte.
I2cEdge(w, byte) ==
  LET clock == Bit(byte, 4) # Bit(w.lastCommand, 4)
      data  == Bit(byte, 5) # Bit(w.lastCommand, 5)
  IN  IF clock
      THEN IF Bit(byte, 4) = 1
           THEN [w EXCEPT !.i2cByte = (2 * @ + Bit(byte, 5)) % 256]
           ELSE ClockFall(w)
      ELSE IF data /\ Bit(byte, 4) = 1 THEN DataEdge(w, byte)
      ELSE w

\* The response built from the drive level the command's own edge set.
CommandResponseNewDrive(w, w1) == Or8(STATUS_BITS, And8(w.lastCommand, w1.i2cDrive))

\* The byte written back for a command (lines 624-627): w is the state
\* before the command, w1 the state after its edge.
CommandResponse(w, w1) == Or8(STATUS_BITS, And8(w.lastCommand, w.i2cDrive))

RecvCommand(w, byte, at) ==
  LET wt == [w EXCEPT !.trace = Append(@, Handled(at, byte, "command", -1, FALSE, FALSE, -1))]
  IN  IF byte % 2 = 0 THEN Throw(wt)
      ELSE LET w1 == IF Bit(byte, 7) = 0 THEN I2cEdge(wt, byte) ELSE wt
           IN  Done([w1 EXCEPT !.out = Append(@, OutCmd(at, CommandResponse(w, w1))),
                               !.lastCommand = byte,
                               !.receiver = "null"])

(***************************************************************************)
(* _recvChannel                                                            *)
(***************************************************************************)
RecvChannel(w, byte, at) ==
  Done([w EXCEPT !.channel = byte, !.receiver = "null",
                 !.trace = Append(@, Handled(at, byte, "channel", -1, FALSE, FALSE, -1))])

(***************************************************************************)
(* _recvPacket                                                             *)
(***************************************************************************)
\* One buffer for all channels.
BufferKeyShared(w) == 0

\* The index of the active channel's buffer in _packets (lines 530, 534,
\* 548, 552).
BufferKey(w) == w.channel

\* this._packets[this._channel] is a buffer (neither undefined nor null).
IsOpen(w) == BufferKey(w) \in DOMAIN w.packets

SetPacket(pk, ch, val) == [c \in DOMAIN pk \cup {ch} |-> IF c = ch THEN val ELSE pk[c]]

\* A start-of-packet that leaves an open buffer as it is.
OpenPacketKeep(pk, ch) ==
  IF ch \in DOMAIN pk THEN pk ELSE SetPacket(pk, ch, [data |-> <<>>, eop |-> FALSE])

\* this._packets[ch] = [] (line 530): a new empty buffer with no
\* end-of-packet mark, in place of whatever was there.
OpenPacket(pk, ch) == SetPacket(pk, ch, [data |-> <<>>, eop |-> FALSE])

\* this._packets[ch] = null: undefined and null are both "no buffer".
ClearPacket(pk, ch) == [c \in DOMAIN pk \ {ch} |-> pk[c]]

\* The outer escape without its XOR.
Unescape3Plain(w, byte) == byte

\* The byte after the outer escape (lines 519-522).
Unescape3(w, byte) == IF w.escaped3 THEN Xor8(byte, 32) ELSE byte

\* Lines 544-556: a data byte, after the control values were ruled out.
RecvData(w, b, junk, at) ==
  LET d  == IF w.escaped7 THEN Xor8(b, 32) ELSE b
      w1 == [w EXCEPT !.escaped7 = FALSE]
  IN  IF ~IsOpen(w1) THEN Done(w1)
      ELSE LET pkt == [w1.packets[BufferKey(w1)] EXCEPT !.data = Append(@, d)]
               w2  == [w1 EXCEPT !.trace[Len(w1.trace)].pushed = d]
           IN  IF pkt.eop
               THEN ProcessPacket([w2 EXCEPT !.packets = ClearPacket(@, BufferKey(w2))],
                                  pkt.data, junk, at)
               ELSE Done([w2 EXCEPT !.packets = SetPacket(@, BufferKey(w2), pkt)])

RecvPacket(w, byte, junk, at) ==
  IF byte = ESCAPE3
  THEN Done([w EXCEPT !.escaped3 = TRUE,
                      !.trace = Append(@, Handled(at, byte, "packet", -1, IsOpen(w), w.escaped7, -1))])
  ELSE LET b  == Unescape3(w, byte)
           w1 == [w EXCEPT !.escaped3 = FALSE,
                           !.trace = Append(@, Handled(at, byte, "packet", b, IsOpen(w), w.escaped7, -1))]
       IN  IF b = CH_PREFIX THEN Done([w1 EXCEPT !.receiver = "channel"])
           ELSE IF b = SOP
           THEN Done([w1 EXCEPT !.packets = OpenPacket(@, BufferKey(w1))])
           ELSE IF b = EOP
           THEN IF IsOpen(w1)
                THEN Done([w1 EXCEPT !.packets[BufferKey(w1)].eop = TRUE])
                ELSE Done(w1)
           ELSE IF b = ESCAPE7 THEN Done([w1 EXCEPT !.escaped7 = TRUE])
           ELSE RecvData(w1, b, junk, at)

(***************************************************************************)
(* _recvSerial: the callback of one byte (lines 495-505)                   *)
(***************************************************************************)
\* The byte starts a command whatever the receiver is (line 496).
IsCommandPrefix(w, byte) == byte = CMD_PREFIX

\* A prefix that also ends the escapes pending in the deframer.
SelectCommandReset(w) ==
  [w EXCEPT !.receiver = "command", !.escaped3 = FALSE, !.escaped7 = FALSE]

\* this._receiver = this._recvCommand (line 498), and nothing else.
SelectCommand(w) == [w EXCEPT !.receiver = "command"]

RecvSerialByte(w, byte, junk, at) ==
  IF IsCommandPrefix(w, byte)
  THEN Done([SelectCommand(w) EXCEPT
               !.trace = Append(@, Handled(at, byte, "prefix", -1, FALSE, FALSE, -1))])
  ELSE LET w1 == IF w.receiver = "null" THEN [w EXCEPT !.receiver = "packet"] ELSE w
       IN  IF w1.receiver = "command" THEN RecvCommand(w1, byte, at)
           ELSE IF w1.receiver = "channel" THEN RecvChannel(w1, byte, at)
           ELSE RecvPacket(w1, byte, junk, at)

(***************************************************************************)
(* The registers of the slave s1: _readReg and _writeReg.                  *)
(***************************************************************************)
\* A 32-bit register value as its two 16-bit halves.
Word(hi, lo) == [hi |-> hi, lo |-> lo]

Or16(a, b) ==
  LET f[k \in 0..16] ==
        IF k = 16 THEN 0
        ELSE (IF Bit(a, k) + Bit(b, k) > 0 THEN 2^k ELSE 0) + f[k + 1]
  IN  f[0]

\* What load() and _parseOptions take from the system description and
\* the command line.
Config(key, uid, uid_en, flash_en, msg_en) ==
  [resetKey |-> key, classid |-> Word(29232, 1), timecode |-> Word(22136, 4660),
   uid_l |-> uid, uid_h |-> uid, uid_en |-> uid_en, flash_en |-> flash_en,
   msg_en |-> msg_en, user_img |-> TRUE]

DefaultConfig == Config(57005, Word(0, 0), TRUE, TRUE, TRUE)

\* The register fields after load() (lines 427-440); _uidval is never set.
CsrFields(c) ==
  [resetKey |-> c.resetKey, classid |-> c.classid, timecode |-> c.timecode,
   uid_l |-> c.uid_l, uid_h |-> c.uid_h, uid_en |-> c.uid_en,
   flash_en |-> c.flash_en, msg_en |-> c.msg_en, user_img |-> c.user_img,
   uidval |-> FALSE, led |-> 0, irqena |-> FALSE, rdy |-> FALSE, ss |-> FALSE,
   rxdata |-> 0, message |-> Word(0, 0), swi |-> FALSE]

NoCall == [op |-> "none", offset |-> 0, value |-> Word(0, 0), result |-> "none",
           warned |-> FALSE]

LoadCsr(c) ==
  /\ csr = CsrFields(c)
  /\ irq = "initial"
  /\ call = NoCall

Flag(b, v) == IF b THEN v ELSE 0

\* A register read as if its feature were always there.
GateOpen(en, v) == v

\* `en ? v : 0` of the feature-gated registers.
Gate(en, v) == IF en THEN v ELSE Word(0, 0)

\* _readReg: the value returned, "undefined" past offset 7.
ReadReg(c, offset) ==
  CASE offset = 0 -> c.classid
    [] offset = 1 -> c.timecode
    [] offset = 2 -> Gate(c.uid_en, c.uid_l)
    [] offset = 3 -> Gate(c.uid_en, c.uid_h)
    [] offset = 4 -> Word(0, Flag(c.uidval, 32768) + Flag(c.uid_en, 16384)
                             + Flag(c.flash_en, 8192) + Flag(c.msg_en, 4096)
                             + Flag(c.user_img, 2048) + (c.led % 16))
    [] offset = 5 -> Gate(c.flash_en,
                          Word(0, Or16(Flag(c.irqena, 32768) + Flag(c.rdy, 512)
                                       + Flag(c.ss, 256), c.rxdata % 1024)))
    [] offset = 6 -> Gate(c.msg_en, c.message)
    [] offset = 7 -> Gate(c.msg_en, Word(0, Flag(c.swi, 1)))
    [] OTHER -> "undefined"

\* The condition of line 807 under which a reset request throws.
ResetAllowed(key, value) == (key # 0) \/ (key = value.hi)

\* A line that is raised by a 1 and left alone by a 0.
IrqAfterSticky(line, swi) == IF swi THEN "asserted" ELSE line

\* The interrupt line after lines 828-832: asserted or deasserted as the
\* flag says, whatever it was.
IrqAfter(line, swi) == IF swi THEN "asserted" ELSE "deasserted"

\* _writeReg: the fields and the interrupt line after the call, its
\* result ("true", "false", or "reset" when it threw), whether it warned.
WriteReg(c, line, offset, value) ==
  LET ret(c1, l1, res, warned) == [csr |-> c1, irq |-> l1, result |-> res, warned |-> warned]
  IN  CASE offset \in 0..3 -> ret(c, line, "true", FALSE)
        [] offset = 4 ->
             LET c1 == [c EXCEPT !.led = value.lo % 16]
             IN  IF Bit(value.lo, 8) = 1
                 THEN IF ResetAllowed(c.resetKey, value)
                      THEN ret(c1, line, "reset", FALSE)
                      ELSE ret(c1, line, "true", TRUE)
                 ELSE ret(c1, line, "true", FALSE)
        [] offset = 5 ->
             IF c.flash_en
             THEN ret([c EXCEPT !.irqena = (Bit(value.lo, 15) = 1),
                                !.ss = (Bit(value.lo, 8) = 1)], line, "true", FALSE)
             ELSE ret(c, line, "true", FALSE)
        [] offset = 6 ->
             IF c.msg_en THEN ret([c EXCEPT !.message = value], line, "true", FALSE)
             ELSE ret(c, line, "true", FALSE)
        [] offset = 7 ->
             IF c.msg_en
             THEN ret([c EXCEPT !.swi = (Bit(value.lo, 0) = 1)],
                      IrqAfter(line, Bit(value.lo, 0) = 1), "true", FALSE)
             ELSE ret(c, line, "true", FALSE)
        [] OTHER -> ret(c, line, "false", FALSE)

(***************************************************************************)
(* The receive chain: load() lines 472-476 and _recvSerial lines 492-507.  *)
(***************************************************************************)
\* One "data" callback on the chain: its buffer, the number of input bytes
\* delivered before it, the bytes of it already handed to a receiver, and
\* the transaction the current byte is waiting for.
Activation(data, base) == [data |-> data, base |-> base, pos |-> 0, txn |-> NoTxn]

\* The "data" handler calling _recvSerial without chaining it on
\* _receivePromise: a callback runs whatever is still pending before it.
SettledUnchained(i) == TRUE

\* The callback of chain element i may run: every earlier element of
\* _receivePromise has resolved (line 473, .then on the previous promise).
Settled(i) == i = 1

\* A byte's callback that does not return the promise of its receiver:
\* the next byte never waits.
ResolvedAlways(txn) == TRUE

\* The promise a byte's callback returned has resolved, so the callback of
\* the next byte may run (lines 494-495 and 504, 553): no access is pending.
Resolved(txn) == txn.kind = "none"

\* The receiver kept in a local of _recvSerial: every buffer starts with
\* none selected.
FieldsPerBuffer(w, pos) == IF pos = 0 THEN [w EXCEPT !.receiver = "null"] ELSE w

\* The fields the callback of a byte works on: those of `this`, as the
\* previous byte left them, wherever in its buffer the byte is (pos bytes
\* of the buffer were handled before it).
FieldsAt(w, pos) == w

Remove(q, i) == [k \in 1..(Len(q) - 1) |-> IF k < i THEN q[k] ELSE q[k + 1]]

\* What the unmapped bytes of Buffer.allocUnsafe may hold.
JunkBytes == {0, 165}

\* The results the memory master may give for the pending access: for a
\* read the number of units returned, -1 when no slave is mapped.
ServeChoices(txn) ==
  IF txn.kind = "write" THEN {1}
  ELSE IF ~Mapped(txn.addr) THEN {-1}
  ELSE IF txn.count = 0 THEN {0, 1}
  ELSE {k \in 1..MaxServe : Mapped(txn.addr + k * txn.width - 1)}

\* The fields after a handler, and the chain after the step of element i
\* that left result r with `pos` bytes of its buffer handled.
Commit(r, i, pos) ==
  /\ receiver' = r.w.receiver
  /\ escaped3' = r.w.escaped3
  /\ escaped7' = r.w.escaped7
  /\ channel' = r.w.channel
  /\ packets' = r.w.packets
  /\ lastCommand' = r.w.lastCommand
  /\ i2cByte' = r.w.i2cByte
  /\ i2cDrive' = r.w.i2cDrive
  /\ i2cState' = r.w.i2cState
  /\ i2cWrite' = r.w.i2cWrite
  /\ eepAddr' = r.w.eepAddr
  /\ eepData' = r.w.eepData
  /\ out' = r.w.out
  /\ mem' = r.w.mem
  /\ acc' = r.w.acc
  /\ disp' = r.w.disp
  /\ trace' = r.w.trace
  /\ rejected' = r.threw
  /\ chain' = IF r.threw THEN <<>>
              ELSE IF r.txn.kind # "none"
              THEN [chain EXCEPT ![i].pos = pos, ![i].txn = r.txn]
              ELSE IF pos = Len(chain[i].data) THEN Remove(chain, i)
              ELSE [chain EXCEPT ![i].pos = pos, ![i].txn = NoTxn]

\* The serial port emits "data" with the next bytes of the input.
OnData ==
  \E n \in 1..MaxChunk :
    /\ nread + n <= Len(scn.script)
    /\ Len(chain) < MaxQueue
    /\ nread' = nread + n
    /\ chain' = IF rejected THEN chain
                ELSE Append(chain, Activation(SubSeq(scn.script, nread + 1, nread + n), nread))
    /\ UNCHANGED <<rejected, receiver, escaped3, escaped7, channel, packets,
                   lastCommand, i2cByte, i2cDrive, i2cState, i2cWrite, eepAddr,
                   eepData, out, mem, acc, disp, trace, scn, csr, irq, call>>

\* The callback of the next byte of a buffer runs.
RecvByte ==
  \E i \in 1..Len(chain), junk \in JunkBytes :
    /\ ~rejected
    /\ Settled(i)
    /\ Resolved(chain[i].txn)
    /\ chain[i].pos < Len(chain[i].data)
    /\ Commit(RecvSerialByte(FieldsAt(Self, chain[i].pos),
                             chain[i].data[chain[i].pos + 1], junk,
                             chain[i].base + chain[i].pos + 1),
              i, chain[i].pos + 1)
    /\ UNCHANGED <<nread, scn, csr, irq, call>>

\* The promise of the pending memory access resolves.
MemResolved ==
  \E i \in 1..Len(chain) :
    /\ ~rejected
    /\ chain[i].txn.kind # "none"
    /\ \E served \in ServeChoices(chain[i].txn) :
         Commit(IF chain[i].txn.kind = "write"
                THEN WriteResolved(Self, chain[i].txn, chain[i].base + chain[i].pos)
                ELSE ReadResolved(Self, chain[i].txn, served, chain[i].base + chain[i].pos),
                i, chain[i].pos)
    /\ UNCHANGED <<nread, scn, csr, irq, call>>

Next == OnData \/ RecvByte \/ MemResolved

\* The serial side after load() with the board id and input of scenario s.
LoadSerial(s) ==
  /\ scn = s
  /\ nread = 0
  /\ chain = <<>>
  /\ rejected = FALSE
  /\ receiver = "null"
  /\ escaped3 = FALSE
  /\ escaped7 = FALSE
  /\ channel = 0
  /\ packets = <<>>
  /\ lastCommand = LAST_COMMAND_INIT
  /\ i2cByte = 0
  /\ i2cDrive = I2C_DRIVE_RELEASE
  /\ i2cState = I2C_IDLE
  /\ i2cWrite = FALSE
  /\ eepAddr = 0
  /\ eepData = EepImage(s.bid)
  /\ out = <<>>
  /\ mem = MemInit
  /\ acc = <<>>
  /\ disp = <<>>
  /\ trace = <<>>

\* The fields of the serial side after load(), as a record.
Loaded(s) ==
  [receiver |-> "null", escaped3 |-> FALSE, escaped7 |-> FALSE, channel |-> 0,
   packets |-> <<>>, lastCommand |-> LAST_COMMAND_INIT, i2cByte |-> 0,
   i2cDrive |-> I2C_DRIVE_RELEASE, i2cState |-> I2C_IDLE, i2cWrite |-> FALSE,
   eepAddr |-> 0, eepData |-> EepImage(s.bid), out |-> <<>>, mem |-> MemInit,
   acc |-> <<>>, disp |-> <<>>, trace |-> <<>>]

\* The state after load() with the configuration and input of scenario s.
InitWith(s) == LoadSerial(s) /\ LoadCsr(DefaultConfig)

\* Every byte of the input was delivered and handled, or the chain died.
Finished == nread = Len(scn.script) /\ chain = <<>>

(***************************************************************************)
(* The inputs of the runs: what the host sends, built the way the          *)
(* receivers above take it apart.                                          *)
(***************************************************************************)
\* A run: the board id option, the bytes the host sends, and what they
\* were built from (the channel and packet, or the I2C address and
\* direction and the input positions at which the master samples SDA).
Scenario(kind, bid, script, ch, pkt, i2c, rw, samples) ==
  [kind |-> kind, bid |-> bid, script |-> script, ch |-> ch, pkt |-> pkt,
   i2c |-> i2c, rw |-> rw, samples |-> samples]

\* The sequences qs[lo], ..., qs[hi] one after the other.
RECURSIVE ConcatRange(_, _, _)
ConcatRange(qs, lo, hi) ==
  IF lo > hi THEN <<>>
  ELSE IF lo = hi THEN qs[lo]
  ELSE ConcatRange(qs, lo, (lo + hi) \div 2) \o ConcatRange(qs, (lo + hi) \div 2 + 1, hi)

Concat(qs) == ConcatRange(qs, 1, Len(qs))

\* One packet byte as the host sends it: the outer escape for the command
\* prefix and the outer escape marker, the inner one for control values.
HostByte(b) ==
  IF b \in {CMD_PREFIX, ESCAPE3} THEN <<ESCAPE3, Xor8(b, 32)>>
  ELSE IF IsControl(b) THEN <<ESCAPE7, Xor8(b, 32)>>
  ELSE <<b>>

\* A request packet on the wire, after a channel select when sel.
HostFrame(sel, ch, pkt) ==
  (IF sel THEN <<CH_PREFIX, ch>> ELSE <<>>) \o <<SOP>>
  \o Concat([i \in 1..Len(pkt) |->
               (IF i = Len(pkt) THEN <<EOP>> ELSE <<>>) \o HostByte(pkt[i])])

\* The 8-byte header of a transaction packet and its payload.
Request(type, count, addr, payload) ==
  <<type, 0, count \div 256, count % 256,
    (addr \div 16777216) % 256, (addr \div 65536) % 256, (addr \div 256) % 256, addr % 256>>
  \o payload

PayloadBytes(n) == [i \in 1..n |-> 160 + i]

\* Largest byte count of a request in the runs.
MaxCount == 6

TxnAddrs == {4096, 4097, 4098}
TxnChannels == {0, 5}

PacketScenario(ch, pkt, tail) ==
  Scenario("packet", <<>>, HostFrame(ch # 0, ch, pkt) \o tail, ch, pkt, -1, 0, <<>>)

WriteRequests ==
  UNION { { Request(t, n, a, PayloadBytes(m)) : t \in {0, 4}, a \in TxnAddrs,
                                                m \in {k \in {n - 1, n, n + 1} : k >= 0} } :
          n \in 0..MaxCount }

ReadRequests ==
  { Request(t, n, a, <<>>) : t \in {16, 20}, n \in 0..(MaxCount - 1), a \in TxnAddrs }

OtherRequests ==
  { Request(t, n, 4096, PayloadBytes(m)) : t \in {127, 85, 1}, n \in {0, 3}, m \in {0, 2} }

ShortRequests ==
  { SubSeq(Request(t, 2, 4096, <<>>), 1, l) : t \in {0, 4, 16, 20, 127}, l \in {1, 4, 7} }

\* A command prefix and the command byte for the clock and data levels.
Cmd(scl, sda) == <<CMD_PREFIX, 9 + 16 * scl + 32 * sda>>

\* Runs every specification below includes: a write, a read and a probe,
\* each followed by two commands.
BaseScenarios ==
  { PacketScenario(0, pkt, Cmd(1, 0) \o Cmd(0, 0)) :
      pkt \in { Request(4, 2, 4097, PayloadBytes(2)), Request(20, 2, 4097, <<>>),
                Request(127, 0, 0, <<>>) } }

TxnScenarios ==
  { PacketScenario(ch, pkt, <<>>) :
      ch \in TxnChannels,
      pkt \in WriteRequests \cup ReadRequests \cup OtherRequests \cup ShortRequests }
  \cup BaseScenarios

Init == \E s \in TxnScenarios : InitWith(s)

\* The transaction runs: request packets of every type, count and length.
Spec == Init /\ [][Next]_vars

(***************************************************************************)
(* Runs that feed the framer's own output back into the receive path.      *)
(***************************************************************************)
FrameScenario(ch, data) ==
  Scenario("frame", <<>>, Encode(ch, data), ch, data, -1, 0, <<>>)

\* Byte values that collide with a marker of either layer, or turn into
\* one under XOR 0x20, and some that do neither.
ByteSample == {0, 26, 29, 58, 61, 90, 93, 122, 123, 124, 125, 127, 255}

\* Longest payload drawn from ByteSample.
MaxPayload == 2

SeqsUpTo(S, n) == UNION { [1..k -> S] : k \in 1..n }

FrameScenarios ==
  { FrameScenario(ch, data) : ch \in {0, 58, 61, 124, 255}, data \in SeqsUpTo(ByteSample, MaxPayload) }
  \cup { FrameScenario(ch, <<b>>) : ch \in {0, 7}, b \in Byte }
  \cup { FrameScenario(ch, <<127, 65>>) : ch \in Byte }
  \cup { FrameScenario(0, pkt) :
           pkt \in { Request(4, 2, 4097, PayloadBytes(2)), Request(20, 2, 4097, <<>>) } }

InitFrame == \E s \in FrameScenarios : InitWith(s)

SpecFrame == InitFrame /\ [][Next]_vars

(***************************************************************************)
(* Runs of an I2C master bit-banging the bus with command bytes.           *)
(***************************************************************************)
\* One command of the master: the clock and data levels it sets, and
\* whether it reads SDA from the response to this command.
Op(scl, sda, smp) == [scl |-> scl, sda |-> sda, smp |-> smp]

StartOps == <<Op(1, 1, 0), Op(1, 0, 0), Op(0, 0, 0)>>
RestartOps == <<Op(0, 1, 0), Op(1, 1, 0), Op(1, 0, 0), Op(0, 0, 0)>>
StopOps == <<Op(0, 0, 0), Op(1, 0, 0), Op(1, 1, 0)>>
BitOps(b) == <<Op(0, b, 0), Op(1, b, 0), Op(0, b, 0)>>
\* The eight bits of v, most significant first.
ByteOps(v) == Concat([i \in 1..8 |-> BitOps(Bit(v, 8 - i))])
\* The ninth clock with SDA released (the slave's acknowledge).
AckSlotOps == <<Op(0, 1, 0), Op(1, 1, 0), Op(0, 1, 0)>>
\* Eight clocks with SDA released, read at each rising edge, then the
\* master's acknowledge (SDA low) or not.
ReadByteOps(ack) ==
  Concat([i \in 1..8 |-> <<Op(1, 1, 1), Op(0, 1, 0)>>])
  \o <<Op(0, 1 - ack, 0), Op(1, 1 - ack, 0), Op(0, 1 - ack, 0), Op(0, 1, 0)>>

OpsScript(ops) == Concat([j \in 1..Len(ops) |-> Cmd(ops[j].scl, ops[j].sda)])

\* The input positions of the command bytes whose response is read.
OpsSamples(ops) ==
  LET sampled(p) == p > 0
  IN  SelectSeq([j \in 1..Len(ops) |-> IF ops[j].smp = 1 THEN 2 * j ELSE 0], sampled)

I2cScenario(kind, bid, ops, a7, rw) ==
  Scenario(kind, bid, OpsScript(ops), 0, <<>>, a7, rw, OpsSamples(ops))

\* A transaction the master abandoned before the START of an address run.
AbandonedOps == StartOps \o BitOps(1) \o BitOps(0)

AddrScenarios ==
  { I2cScenario("addr", <<>>, StartOps \o ByteOps(2 * a7 + rw), a7, rw) :
      a7 \in 0..127, rw \in {0, 1} }
  \cup
  { I2cScenario("addr", <<>>, AbandonedOps \o StartOps \o ByteOps(2 * a7 + rw), a7, rw) :
      a7 \in {40, EEPROM_SLAVE_ADDR, 81, 127}, rw \in {0, 1} }

BidOptions == { <<>>, <<74, 55, 50, 65>>, <<65, 66>> }

\* Set the address cursor to `at`, then read n bytes from there.
EepReadOps(at, n) ==
  StartOps \o ByteOps(2 * EEPROM_SLAVE_ADDR) \o AckSlotOps
  \o ByteOps(at) \o AckSlotOps
  \o RestartOps \o ByteOps(2 * EEPROM_SLAVE_ADDR + 1) \o AckSlotOps
  \o Concat([i \in 1..n |-> ReadByteOps(IF i < n THEN 1 ELSE 0)])
  \o StopOps

EepReadScenarios ==
  { I2cScenario("eepread", bid, EepReadOps(4, 4), EEPROM_SLAVE_ADDR, 1) :
      bid \in BidOptions }

\* Command bytes with the mode bit or spare bits set between I2C edges.
NoiseScenarios ==
  { Scenario("noise", <<>>,
             OpsScript(StartOps \o ByteOps(2 * EEPROM_SLAVE_ADDR + 1)) \o Concat(tail),
             0, <<>>, -1, 0, <<>>) :
      tail \in [1..2 -> { <<CMD_PREFIX, c>> : c \in {41, 57, 127, 137, 185, 255} }] }

I2cScenarios == AddrScenarios \cup EepReadScenarios \cup NoiseScenarios \cup BaseScenarios

InitI2c == \E s \in I2cScenarios : InitWith(s)

SpecI2c == InitI2c /\ [][Next]_vars

(***************************************************************************)
(* Runs of the bus past the end of the EEPROM, with clocks but no START,   *)
(* and with a START in the middle of a transfer.                           *)
(***************************************************************************)
\* The cursor set to the last EEPROM address, then two bytes read.
WrapScenarios ==
  { I2cScenario("eepwrap", <<>>, EepReadOps(at, 2), EEPROM_SLAVE_ADDR, 1) :
      at \in {EEPROM_SIZE - 1} }

\* Ways to get the emulator idle: nothing (the state after load), a
\* transaction ended by STOP, and an address byte that was not acknowledged.
IdlePreludes ==
  { <<>>, StartOps \o BitOps(1) \o StopOps, StartOps \o ByteOps(2 * 33 + 1) }

\* Clock pulses with the bits of q on the data line, changed while the
\* clock is low: no START and no STOP among them.
ClockOps(q) == Concat([i \in 1..Len(q) |-> BitOps(q[i])])

BitsOf(v) == [i \in 1..8 |-> Bit(v, 8 - i)]

\* One or two leading bits, then eight bits of a byte, then two more.
ClockPatterns ==
  { lead \o BitsOf(v) \o <<1, 1>> :
      lead \in {<<1>>, <<0, 1>>},
      v \in {2 * EEPROM_SLAVE_ADDR, 2 * EEPROM_SLAVE_ADDR + 1, 66, 255} }

IdleClockScenarios ==
  { I2cScenario("idleclk", <<>>, pre \o ClockOps(q), -1, 0) :
      pre \in IdlePreludes, q \in ClockPatterns }

\* A START while the emulator drives the acknowledge of its address or a
\* data bit of a read.
RestartScenarios ==
  { I2cScenario("restart", <<>>,
                StartOps \o ByteOps(2 * EEPROM_SLAVE_ADDR + 1) \o mid
                \o <<Op(0, 1, 0), Op(1, 1, 0), Op(1, 0, 0), Op(0, 0, 0)>>,
                EEPROM_SLAVE_ADDR, 1) :
      mid \in { <<>>, AckSlotOps, AckSlotOps \o <<Op(1, 1, 1), Op(0, 1, 0)>> } }

\* A write of the data bytes of q to the slave, ended by STOP.
EepWriteOps(q) ==
  StartOps \o ByteOps(2 * EEPROM_SLAVE_ADDR) \o AckSlotOps
  \o Concat([i \in 1..Len(q) |-> ByteOps(q[i]) \o AckSlotOps])
  \o StopOps

WriteScenarios ==
  { Scenario("eepwrite", <<>>, OpsScript(EepWriteOps(q)), 0, q, EEPROM_SLAVE_ADDR, 0, <<>>) :
      q \in { <<4, 9, 200>>, <<255, 0, 1>>, <<1, 74, 74>> } }

BusScenarios ==
  WriteScenarios \cup WrapScenarios \cup IdleClockScenarios \cup RestartScenarios \cup EepReadScenarios
  \cup BaseScenarios

InitBus == \E s \in BusScenarios : InitWith(s)

SpecBus == InitBus /\ [][Next]_vars

(***************************************************************************)
(* Runs of the deframer: packets restarted by a second start-of-packet,    *)
(* and two packets on two channels in every interleaving.                  *)
(***************************************************************************)
DataSeqs(lo, hi) == UNION { [1..k -> {65, 66}] : k \in lo..hi }

\* The data bytes of q on the wire, the end-of-packet byte before the last.
Body(q) == Concat([i \in 1..Len(q) |-> (IF i = Len(q) THEN <<EOP>> ELSE <<>>) \o <<q[i]>>])

\* A packet begun with the bytes of pre, with or without an end-of-packet
\* byte after them, then begun again and completed with the bytes of post.
RestartedScenarios ==
  { Scenario("restarted", <<>>,
             (IF ch # 0 THEN <<CH_PREFIX, ch>> ELSE <<>>) \o <<SOP>> \o pre
             \o (IF mark THEN <<EOP>> ELSE <<>>) \o <<SOP>> \o Body(post),
             ch, post, -1, 0, <<>>) :
      ch \in {0, 7}, pre \in DataSeqs(0, 2), mark \in BOOLEAN, post \in DataSeqs(1, 2) }

\* The bytes of two packets, one per channel, as the deframer must get them.
PacketTokens == << <<SOP, 65, EOP, 66>>, <<SOP, 97, 98, EOP, 99>> >>
PacketChannels == <<0, 7>>

\* The orders in which the bytes of the two packets can follow each other:
\* element i says whose byte comes i-th.
Interleavings ==
  { p \in [1..(Len(PacketTokens[1]) + Len(PacketTokens[2])) -> {1, 2}] :
      Cardinality({ i \in DOMAIN p : p[i] = 1 }) = Len(PacketTokens[1]) }

\* The input for an order p: every byte in its turn, after a channel
\* select when the active channel is not its packet's.
Interleaved(p) ==
  Concat([i \in DOMAIN p |->
            (IF (i = 1 /\ PacketChannels[p[i]] # 0) \/ (i > 1 /\ p[i - 1] # p[i])
             THEN <<CH_PREFIX, PacketChannels[p[i]]>> ELSE <<>>)
            \o <<PacketTokens[p[i]][Cardinality({ j \in 1..i : p[j] = p[i] })]>>])

InterleavedScenarios ==
  { Scenario("interleaved", <<>>, Interleaved(p), 0, <<>>, -1, 0, <<>>) : p \in Interleavings }

InitDeframe ==
  \E s \in RestartedScenarios \cup InterleavedScenarios \cup BaseScenarios : InitWith(s)

SpecDeframe == InitDeframe /\ [][Next]_vars

(***************************************************************************)
(* Runs with an outer escape marker followed by every byte value.          *)
(***************************************************************************)
EscapePreludes ==
  { <<>>, <<SOP>>, <<SOP, 65>>, <<SOP, EOP>>, <<SOP, ESCAPE7>>, <<CH_PREFIX>>,
    <<CMD_PREFIX>>, <<SOP, ESCAPE3>> }

EscapeTails == { <<>>, <<65>>, <<57, 65>> }

EscapeScenarios ==
  { Scenario("escape", <<>>, pre \o <<ESCAPE3, x>> \o tail, 0, <<>>, -1, 0, <<>>) :
      pre \in EscapePreludes, x \in Byte, tail \in EscapeTails }

InitBytes == \E s \in EscapeScenarios \cup BaseScenarios : InitWith(s)

SpecBytes == InitBytes /\ [][Next]_vars

(***************************************************************************)
(* The processor's accesses to the registers of s1.                        *)
(***************************************************************************)
RegOffsets == 0..8

\* Values with the reset-request bit (0x0100) set and clear, and with a
\* zero, a matching and a non-matching key in the high half.
RegValues == { Word(hi, lo) : hi \in {0, 57005, 48879}, lo \in {271, 32768} }

RegConfigs ==
  { Config(key, Word(4660, 22136), u, f, m) :
      key \in {0, 57005}, u \in BOOLEAN, f \in BOOLEAN, m \in BOOLEAN }

\* The processor writes a register.
WriteRegCall ==
  \E offset \in RegOffsets, value \in RegValues :
    LET r == WriteReg(csr, irq, offset, value)
    IN  /\ csr' = r.csr
        /\ irq' = r.irq
        /\ call' = [op |-> "write", offset |-> offset, value |-> value,
                     result |-> r.result, warned |-> r.warned]
        /\ UNCHANGED <<chain, rejected, nread, receiver, escaped3, escaped7, channel,
                       packets, lastCommand, i2cByte, i2cDrive, i2cState, i2cWrite,
                       eepAddr, eepData, out, mem, acc, disp, trace, scn>>

\* The processor reads a register.
ReadRegCall ==
  \E offset \in RegOffsets :
    /\ call' = [op |-> "read", offset |-> offset, value |-> Word(0, 0),
                 result |-> ReadReg(csr, offset), warned |-> FALSE]
    /\ UNCHANGED <<chain, rejected, nread, receiver, escaped3, escaped7, channel,
                   packets, lastCommand, i2cByte, i2cDrive, i2cState, i2cWrite,
                   eepAddr, eepData, out, mem, acc, disp, trace, scn, csr, irq>>

NextReg == WriteRegCall \/ ReadRegCall

InitReg ==
  \E c \in RegConfigs :
    /\ LoadSerial(Scenario("regs", <<>>, <<>>, 0, <<>>, -1, 0, <<>>))
    /\ LoadCsr(c)

\* The register runs: any reads and writes, under every configuration.
SpecReg == InitReg /\ [][NextReg]_vars

(***************************************************************************)
(* Sessions: packets, commands, channel selects and fatal commands in      *)
(* every order.                                                            *)
(***************************************************************************)
\* A probe, a 2-byte write at 0x1001 and a 1-byte read at 0x1007 on the wire.
ProbeWire == HostFrame(FALSE, 0, <<127>>)
WriteWire == HostFrame(FALSE, 0, Request(4, 2, 4097, PayloadBytes(2)))
ReadWire == HostFrame(FALSE, 0, Request(20, 1, 4103, <<>>))

\* A command byte with bit 0 clear, after its prefix.
FatalWire == <<CMD_PREFIX, 8>>

\* A channel select with a command between the marker and the number.
SelectAroundCommand(ch) == <<CH_PREFIX>> \o Cmd(1, 1) \o <<ch>>

\* A packet byte that is an escaped marker, with a command in the escape.
EscapeAroundCommand == <<SOP, ESCAPE3>> \o Cmd(0, 1) \o <<26, EOP, 65>>

SessionSegments ==
  { ProbeWire, WriteWire, ReadWire, FatalWire, Cmd(1, 0), Cmd(0, 0),
    SelectAroundCommand(5), EscapeAroundCommand, <<CH_PREFIX, 5>> }

SessionScenarios ==
  { Scenario("session", <<>>, Concat(segs), 0, <<>>, -1, 0, <<>>) :
      segs \in SeqsUpTo(SessionSegments, 3) }

InitSession == \E s \in SessionScenarios \cup BaseScenarios : InitWith(s)

SpecSession == InitSession /\ [][Next]_vars


(***************************************************************************)
(* Properties.                                                             *)
(***************************************************************************)
Range(q) == { q[i] : i \in 1..Len(q) }

NonDecreasing(q) == \A j \in 1..Len(q), k \in 1..Len(q) : j < k => q[j].at <= q[k].at

\* C1: input bytes are handled strictly one at a time and in order: only the
\* first callback of the chain has started, the bytes handled so far are
\* bytes 1..n of the input in this order, while a memory access is pending
\* the byte that issued it is the last byte handled, and the accesses and
\* the output are in the order of the bytes that caused them.
C1_OneByteAtATime ==
  /\ \A k \in 1..Len(trace) : trace[k].at = k
  /\ \A i \in 2..Len(chain) : chain[i].pos = 0 /\ chain[i].txn.kind = "none"
  /\ \A i \in 1..Len(chain) :
       chain[i].txn.kind # "none" => Len(trace) = chain[i].base + chain[i].pos
  /\ NonDecreasing(acc)
  /\ NonDecreasing(out)
  /\ \A e \in Range(acc) \cup Range(out) : e.at <= Len(trace)

\* A second access of a packet is pending while a later chunk waits.
C1_Witness ==
  /\ Len(chain) >= 2
  /\ chain[1].txn.kind # "none"
  /\ Len(acc) >= 2

\* The response packets in the output.
Responses == { k \in 1..Len(out) : out[k].kind = "pkt" }

\* C3: once the input is consumed, every packet handed to the transaction
\* processor has exactly one response packet in the output and there is no
\* other response packet.
C3_OneResponsePerRequest ==
  Finished =>
    /\ Cardinality(Responses) = Len(disp)
    /\ \A d \in 1..Len(disp) :
         Cardinality({ k \in Responses : out[k].at = disp[d].at }) = 1

\* The fields of a request packet.
ReqType(pkt) == pkt[1]
ReqCount(pkt) == ReadBE(pkt, 2, 2)
ReqAddr(pkt) == ReadBE(pkt, 4, 4)

\* C4: the response to a read-incrementing request of N >= 1 bytes at A,
\* all mapped, has N bytes, byte i being the memory byte at A+i.
C4_ReadReturnsMemory ==
  \A k \in Responses :
    LET req == out[k].req IN
    (/\ Len(req) >= HEADER_LEN
     /\ ReqType(req) = 20
     /\ ReqCount(req) >= 1
     /\ \A i \in 0..(ReqCount(req) - 1) : Mapped(ReqAddr(req) + i))
    => /\ Len(out[k].data) = ReqCount(req)
       /\ \A i \in 0..(ReqCount(req) - 1) : out[k].data[i + 1] = mem[ReqAddr(req) + i]

\* The write-incrementing request of 6 bytes at 0x1000.
IsWrite6(s) ==
  /\ s.kind = "packet"
  /\ s.pkt = Request(4, 6, 4096, PayloadBytes(6))
  /\ s.script = HostFrame(s.ch # 0, s.ch, s.pkt)

Widths == [k \in 1..Len(acc) |-> acc[k].width]
Addrs == [k \in 1..Len(acc) |-> acc[k].addr]

\* C5 as stated: the accesses are 1, 4 and 1 bytes wide, in this order,
\* and the response payload is [0x84, 0x00, 0x00, 0x06].
C5_Original ==
  (Finished /\ IsWrite6(scn)) =>
    /\ Widths = <<1, 4, 1>>
    /\ Cardinality(Responses) = 1
    /\ \A k \in Responses : out[k].data = <<132, 0, 0, 6>>

\* C5 amended: the accesses are one 4-byte write at 0x1000 followed by two
\* 1-byte writes at 0x1004 and 0x1005, carrying the payload in order, and
\* the response, written after the last of them, has payload
\* [0x84, 0x00, 0x00, 0x06].
C5_Write6 ==
  IsWrite6(scn) =>
    /\ (out # <<>> \/ Finished) =>
         /\ Widths = <<4, 1, 1>>
         /\ Addrs = <<4096, 4100, 4101>>
         /\ \A k \in 1..Len(acc) : acc[k].op = "write"
         /\ Concat([k \in 1..Len(acc) |-> acc[k].bytes]) = PayloadBytes(6)
    /\ Finished =>
         /\ Len(out) = 1
         /\ out[1].kind = "pkt"
         /\ out[1].data = <<132, 0, 0, 6>>

C5_Witness == Finished /\ IsWrite6(scn) /\ Len(out) = 1 /\ Len(acc) = 3 /\ ~rejected

\* C6: a response packet is framed with the channel its request came on.
C6_SameChannel ==
  \A k \in Responses :
    /\ out[k].chan = out[k].reqch
    /\ SubSeq(out[k].bytes, 1, 2) = <<CH_PREFIX, out[k].reqch>>

\* C2 as stated: the receive path, fed the framer's bytes for a channel
\* and a non-empty payload, dispatches exactly one packet, with this
\* payload, on this channel.
C2_Original ==
  (Finished /\ scn.kind = "frame") =>
    /\ Len(disp) = 1
    /\ disp[1].chan = scn.ch
    /\ disp[1].bytes = scn.pkt

\* C2 amended: the same, for a channel other than 0x3a and a payload
\* without the bytes 0x3a and 0x3d, which the framer sends unescaped.
C2_RoundTrip ==
  (/\ Finished
   /\ scn.kind = "frame"
   /\ scn.ch # CMD_PREFIX
   /\ \A i \in 1..Len(scn.pkt) : scn.pkt[i] \notin {CMD_PREFIX, ESCAPE3})
  => /\ Len(disp) = 1
     /\ disp[1].chan = scn.ch
     /\ disp[1].bytes = scn.pkt

\* A payload of control values came back whole on channel 0x7c.
C2_Witness ==
  /\ Finished
  /\ scn.kind = "frame"
  /\ scn.ch = CH_PREFIX
  /\ scn.pkt = <<SOP, ESCAPE7>>
  /\ Len(disp) = 1
  /\ disp[1].bytes = scn.pkt

\* C7: after START and 8 clocked address bits the emulator drives ACK
\* (0x10) exactly when the upper 7 bits are the slave address, and for
\* every other address releases the bus (0x30) and is idle again.
C7_AddressAck ==
  (Finished /\ scn.kind = "addr") =>
    IF scn.i2c = EEPROM_SLAVE_ADDR
    THEN i2cDrive = I2C_DRIVE_ACK /\ i2cState = 8
    ELSE i2cDrive = I2C_DRIVE_RELEASE /\ i2cState = I2C_IDLE

C7_Witness ==
  /\ Finished
  /\ scn.kind = "addr"
  /\ scn.i2c = EEPROM_SLAVE_ADDR
  /\ scn.rw = 1
  /\ i2cDrive = I2C_DRIVE_ACK
  /\ Len(trace) = Len(scn.script)

\* The response byte to the command at input position p.
ResponseAt(p) == out[CHOOSE k \in 1..Len(out) : out[k].at = p].bytes[1]

\* The n-th byte the master assembles from the SDA levels (bit 5) it reads
\* in the responses, most significant bit first.
ObservedByte(n) ==
  LET f[i \in 0..8] ==
        IF i = 0 THEN 0
        ELSE 2 * f[i - 1] + Bit(ResponseAt(scn.samples[8 * (n - 1) + i]), 5)
  IN  f[8]

\* C8: after the cursor was set to 4 and a read was addressed, the 4 bytes
\* the master reads are EEPROM bytes 4..7, the configured board id.
C8_EepromRead ==
  (Finished /\ scn.kind = "eepread") =>
    /\ ~rejected
    /\ Len(scn.samples) = 32
    /\ \A n \in 1..4 :
         /\ ObservedByte(n) = EepAt(eepData, 3 + n)
         /\ ObservedByte(n) = BoardId(scn.bid)[n]

C8_Witness ==
  /\ Finished
  /\ scn.kind = "eepread"
  /\ scn.bid = <<65, 66>>
  /\ [n \in 1..4 |-> ObservedByte(n)] = <<65, 66, PAD_CHAR, PAD_CHAR>>
  /\ eepAddr = 8

\* The command byte before the next one: the last command byte handled,
\* 0x39 before the first.
PrevCommand(t) ==
  LET cmds == { k \in 1..Len(t) : t[k].recv = "command" }
  IN  IF cmds = {} THEN LAST_COMMAND_INIT
      ELSE t[CHOOSE k \in cmds : \A j \in cmds : j <= k].byte

\* C9: the step that handles a command byte with bit 0 set writes exactly
\* one byte, 0x07 | (P AND D), P the previous command byte and D the drive
\* level before the step.
C9_Step ==
  (/\ Len(trace') = Len(trace) + 1
   /\ trace'[Len(trace')].recv = "command"
   /\ trace'[Len(trace')].byte % 2 = 1)
  => out' = Append(out, OutCmd(trace'[Len(trace')].at,
                               Or8(STATUS_BITS, And8(PrevCommand(trace), i2cDrive))))

C9_CommandResponse == [][C9_Step]_vars

\* A response showed SDA low although the previous command released it:
\* the level came from the drive the emulator had set before.
C9_Witness ==
  \E k \in 1..Len(out) :
    /\ out[k].kind = "cmd"
    /\ out[k].at >= 4
    /\ trace[out[k].at - 2].recv = "command"
    /\ Bit(trace[out[k].at - 2].byte, 5) = 1
    /\ Bit(out[k].bytes[1], 5) = 0
    /\ i2cDrive = I2C_DRIVE_RELEASE
    /\ out[k].at = Len(trace)

\* C10 as stated: after an escape marker the next byte X reaches the
\* deframer as X XOR 0x20, the marker itself as nothing, for every X.
C10_Original ==
  \A k \in 1..(Len(trace) - 1) :
    trace[k].byte = ESCAPE3 =>
      /\ trace[k].eff = -1
      /\ trace[k + 1].recv = "packet"
      /\ trace[k + 1].eff = Xor8(trace[k + 1].byte, 32)

\* C10 amended: the same when the marker is taken by the packet deframer
\* and X is neither 0x3a nor 0x3d; then 0x3d, 0x1a in an open packet with no
\* inner escape pending appends 0x3a to the packet.
C10_Escape ==
  \A k \in 1..(Len(trace) - 1) :
    (/\ trace[k].byte = ESCAPE3
     /\ trace[k].recv = "packet"
     /\ trace[k + 1].byte \notin {CMD_PREFIX, ESCAPE3})
    => /\ trace[k].eff = -1
       /\ trace[k].pushed = -1
       /\ trace[k + 1].recv = "packet"
       /\ trace[k + 1].eff = Xor8(trace[k + 1].byte, 32)
       /\ (trace[k + 1].byte = 26 /\ trace[k + 1].open /\ ~trace[k + 1].esc7)
            => trace[k + 1].pushed = CMD_PREFIX

C10_Witness ==
  \E k \in 1..(Len(trace) - 1) :
    /\ trace[k].byte = ESCAPE3
    /\ trace[k].recv = "packet"
    /\ trace[k + 1].byte = 26
    /\ trace[k + 1].pushed = CMD_PREFIX
    /\ receiver = "packet"

\* A command byte with bit 0 clear was handed to the command receiver.
FatalSeen(t) == \E k \in 1..Len(t) : t[k].recv = "command" /\ t[k].byte % 2 = 0

\* C11: the step that handles a command byte with bit 0 clear writes no
\* output and leaves the I2C state as it was, and after it no step writes
\* output, issues a memory access or handles an input byte.
C11_Step ==
  /\ FatalSeen(trace') =>
        /\ out' = out
        /\ acc' = acc
        /\ mem' = mem
        /\ <<lastCommand, i2cByte, i2cDrive, i2cState, i2cWrite, eepAddr>>'
             = <<lastCommand, i2cByte, i2cDrive, i2cState, i2cWrite, eepAddr>>
        /\ rejected'
        /\ chain' = <<>>
  /\ FatalSeen(trace) => trace' = trace /\ disp' = disp

C11_FatalCommand == [][C11_Step]_vars

\* A fatal command arrived after a command was answered and before a
\* request packet, the rest of the input was delivered, and
\* nothing of it was handled.
C11_Witness ==
  /\ FatalSeen(trace)
  /\ Finished
  /\ scn.kind = "session"
  /\ Len(scn.script) >= Len(trace) + Len(WriteWire)
  /\ out # <<>>

\* C12: a write to offset 4 with the reset-request bit set and high 16
\* bits that differ from the configured key does not raise the reset error:
\* it warns and returns normally.
C12_MismatchIsWarning ==
  (/\ call.op = "write"
   /\ call.offset = 4
   /\ Bit(call.value.lo, 8) = 1
   /\ call.value.hi # csr.resetKey)
  => call.result = "true" /\ call.warned

\* The features are what the configuration says whatever was written.
CsrConfigKept(c) ==
  \E k \in RegConfigs :
    /\ k.uid_en = c.uid_en /\ k.flash_en = c.flash_en /\ k.msg_en = c.msg_en
    /\ k.uid_l = c.uid_l /\ k.uid_h = c.uid_h /\ k.resetKey = c.resetKey

\* C14: in every state the register writes lead to, a feature-gated
\* register of a disabled feature reads 0: offsets 6 and 7 (message), 5
\* (flash), 2 and 3 (UID); and a read call of one returned 0.
C14_GatedReadsZero ==
  /\ CsrConfigKept(csr)
  /\ ~csr.msg_en => ReadReg(csr, 6) = Word(0, 0) /\ ReadReg(csr, 7) = Word(0, 0)
  /\ ~csr.flash_en => ReadReg(csr, 5) = Word(0, 0)
  /\ ~csr.uid_en => ReadReg(csr, 2) = Word(0, 0) /\ ReadReg(csr, 3) = Word(0, 0)
  /\ (/\ call.op = "read"
      /\ \/ call.offset \in {6, 7} /\ ~csr.msg_en
         \/ call.offset = 5 /\ ~csr.flash_en
         \/ call.offset \in {2, 3} /\ ~csr.uid_en)
     => call.result = Word(0, 0)

\* With the UID feature disabled and a nonzero UID configured, offset 2
\* was read after the LED register was written.
C14_Witness ==
  /\ call.op = "read"
  /\ call.offset = 2
  /\ ~csr.uid_en
  /\ csr.uid_l # Word(0, 0)
  /\ csr.led = 15
  /\ call.result = Word(0, 0)

\* C13: a dispatched packet whose type is none of 0x00, 0x04, 0x10, 0x14 has
\* exactly one response, with payload [0xFF, 0x00, 0x00, 0x00], written by
\* the step that dispatched it, and causes no memory access, whatever its
\* length and other bytes.
C13_UnsupportedSentinel ==
  \A d \in 1..Len(disp) :
    ReqType(disp[d].bytes) \notin {0, 4, 16, 20} =>
      /\ \E k \in Responses :
           /\ out[k].at = disp[d].at
           /\ out[k].data = <<UNSUPPORTED, 0, 0, 0>>
           /\ out[k].req = disp[d].bytes
           /\ \A j \in 1..Len(out) : out[j].at = disp[d].at => j = k
      /\ \A a \in 1..Len(acc) : acc[a].at # disp[d].at

\* A packet of type 0x01 with a count, a mapped address and a payload was
\* answered with the sentinel.
C13_Witness ==
  /\ Finished
  /\ Len(disp) = 1
  /\ Len(out) = 1
  /\ ReqType(disp[1].bytes) = 1
  /\ Len(disp[1].bytes) = HEADER_LEN + 2
  /\ ReqCount(disp[1].bytes) = 3
  /\ out[1].data = <<UNSUPPORTED, 0, 0, 0>>
  /\ acc = <<>>

\* C15: the writes to the outgoing stream are in the order of the input
\* bytes that caused them, one write per input byte at most; when an output
\* caused by a later byte is there, the response of every packet
\* dispatched by an earlier byte was written before it; and a response
\* packet is one whole write.
C15_OutputOrder ==
  /\ \A j \in 1..Len(out), k \in 1..Len(out) : j < k => out[j].at < out[k].at
  /\ \A k \in 1..Len(out), d \in 1..Len(disp) :
       disp[d].at < out[k].at =>
         \E j \in 1..(k - 1) :
           /\ out[j].kind = "pkt"
           /\ out[j].at = disp[d].at
           /\ out[j].req = disp[d].bytes
  /\ \A k \in Responses : out[k].bytes = Encode(out[k].chan, out[k].data)

\* A write served in two accesses was answered, then a command that
\* arrived behind it.
C15_Witness ==
  /\ Len(out) >= 2
  /\ out[1].kind = "pkt"
  /\ ReqType(out[1].req) = 4
  /\ Len(acc) = 2
  /\ out[2].kind = "cmd"
  /\ out[2].at = out[1].at + 2

\* A handler's result once every access of its transaction has resolved,
\* each answered with one unit.
RECURSIVE Settle(_, _)
Settle(r, at) ==
  IF r.threw \/ r.txn.kind = "none" THEN r
  ELSE Settle(IF r.txn.kind = "write" THEN WriteResolved(r.w, r.txn, at)
              ELSE ReadResolved(r.w, r.txn, 1, at),
              at)

\* The run of a whole input handed over as one buffer: the fields after
\* its bytes were handled one after the other, and whether a handler threw.
RunState(r) == [w |-> r.w, dead |-> r.threw]

WholeStep(prev, byte, n) ==
  IF prev.dead THEN prev ELSE RunState(Settle(RecvSerialByte(prev.w, byte, 0, n), n))

WholeRun(s, input) ==
  LET f[n \in 0..Len(input)] ==
        IF n = 0 THEN [w |-> Loaded(s), dead |-> FALSE]
        ELSE WholeStep(f[n - 1], input[n], n)
  IN  f[Len(input)]

\* No callback is waiting for a memory access.
Quiescent == \A i \in 1..Len(chain) : chain[i].txn.kind = "none"

\* C16: however the transport cut the input into buffers, once n bytes are
\* handled the output, the accesses, the memory and every protocol field
\* are those of the run that got the same n bytes as one buffer.
C16_ChunkingIndependent ==
  (scn.kind = "session" /\ Quiescent) =>
    [w |-> Self, dead |-> rejected] = WholeRun(scn, SubSeq(scn.script, 1, Len(trace)))

\* The transport cut the input between a command prefix that followed a
\* channel-select byte and the command byte, after an output was written.
C16_Witness ==
  /\ scn.kind = "session"
  /\ Len(chain) >= 1
  /\ chain[1].pos = 0
  /\ chain[1].base = Len(trace)
  /\ Len(trace) >= 2
  /\ trace[Len(trace)].recv = "prefix"
  /\ trace[Len(trace) - 1].byte = CH_PREFIX
  /\ out # <<>>

\* The sum of the first k widths of the access log.
WidthSum(k) ==
  LET f[i \in 0..k] == IF i = 0 THEN 0 ELSE f[i - 1] + acc[i].width
  IN  f[k]

\* C17: for a write request of N >= 0 bytes at A with its N payload bytes,
\* the widths of the accesses sum to N; an access is 4 bytes wide exactly
\* when at least 4 bytes remain and its address is 4-byte aligned, and 1
\* byte wide otherwise; it targets A plus the bytes written before it for
\* type 0x04 and A for type 0x00; and the accesses carry the payload bytes
\* in order from packet offset 8.
C17_WriteUnits ==
  (/\ Finished
   /\ scn.kind = "packet"
   /\ Len(scn.pkt) >= HEADER_LEN
   /\ ReqType(scn.pkt) \in {0, 4}
   /\ Len(scn.pkt) - HEADER_LEN >= ReqCount(scn.pkt))
  => /\ WidthSum(Len(acc)) = ReqCount(scn.pkt)
     /\ \A k \in 1..Len(acc) :
          /\ acc[k].op = "write"
          /\ acc[k].width =
               IF ReqCount(scn.pkt) - WidthSum(k - 1) >= 4 /\ acc[k].addr % 4 = 0
               THEN 4 ELSE 1
          /\ acc[k].addr =
               ReqAddr(scn.pkt) + (IF ReqType(scn.pkt) = 4 THEN WidthSum(k - 1) ELSE 0)
     /\ Concat([k \in 1..Len(acc) |-> acc[k].bytes])
          = SubSeq(scn.pkt, HEADER_LEN + 1, HEADER_LEN + ReqCount(scn.pkt))

\* The receiver that was selected when the byte at position k arrived:
\* the channel receiver right after a channel-select byte, else the packet
\* deframer.
ActiveBefore(k) ==
  IF k > 1 /\ trace[k - 1].recv = "packet" /\ trace[k - 1].eff = CH_PREFIX
  THEN "channel" ELSE "packet"

\* C18: after a command prefix and its command byte the next byte goes to
\* the receiver that was selected before the prefix; after a channel-select
\* byte, the prefix and the command byte, it is taken as the channel number.
C18_ReceiverRestored ==
  \A k \in 1..(Len(trace) - 2) :
    (/\ trace[k].recv = "prefix"
     /\ (k > 1 => trace[k - 1].recv # "prefix")
     /\ trace[k + 1].recv = "command"
     /\ trace[k + 2].byte # CMD_PREFIX)
    => trace[k + 2].recv = ActiveBefore(k)

\* C19: the address cursor stays in 0..255, and the byte read after the
\* byte at address 255 is the EEPROM byte at address 0.
C19_CursorWraps ==
  /\ eepAddr \in 0..(EEPROM_SIZE - 1)
  /\ (Finished /\ scn.kind = "eepwrap") =>
       /\ ObservedByte(1) = EepAt(eepData, EEPROM_SIZE - 1)
       /\ ObservedByte(2) = EepAt(eepData, 0)

\* The command bytes handled so far, in order.
Commands == SelectSeq(trace, LAMBDA e : e.recv = "command" /\ e.byte % 2 = 1)

\* The command byte before the k-th one.
CommandBefore(k) == IF k = 1 THEN LAST_COMMAND_INIT ELSE Commands[k - 1].byte

\* The k-th command byte is an I2C command that keeps the clock high and
\* moves the data line to `sda`: a START (0) or a STOP (1).
DataEdgeAt(k, sda) ==
  /\ Bit(Commands[k].byte, 7) = 0
  /\ Bit(Commands[k].byte, 4) = 1
  /\ Bit(CommandBefore(k), 4) = 1
  /\ Bit(Commands[k].byte, 5) = sda
  /\ Bit(CommandBefore(k), 5) = 1 - sda

\* The k-th command byte is a falling clock edge.
FallAt(k) ==
  /\ Bit(Commands[k].byte, 7) = 0
  /\ Bit(Commands[k].byte, 4) = 0
  /\ Bit(CommandBefore(k), 4) = 1

NoStart == \A k \in 1..Len(Commands) : ~DataEdgeAt(k, 0)

Falls == Cardinality({ k \in 1..Len(Commands) : FallAt(k) })

IrqFollowsFlag(line, c) == (line = "asserted") <=> (ReadReg(c, 7) = Word(0, 1))

\* C23 for one register call: with the message feature enabled a write to
\* offset 7 drives the line to bit 0 of the written value, which is the
\* flag then read at offset 7, and once driven the line follows the flag
\* through every other call; with the feature disabled no call touches it.
C23_Step ==
  IF csr.msg_en
  THEN /\ (call'.op = "write" /\ call'.offset = 7) =>
            /\ irq' = IF Bit(call'.value.lo, 0) = 1 THEN "asserted" ELSE "deasserted"
            /\ IrqFollowsFlag(irq', csr')
       /\ irq # "initial" => (irq' # "initial" /\ IrqFollowsFlag(irq', csr'))
  ELSE irq' = irq /\ irq = "initial"

C23_IrqFollowsSwi == [][C23_Step]_vars

\* With the message feature enabled, after a write to the LED register, a
\* write to offset 7 cleared the flag: the line is deasserted.
C23_Witness ==
  /\ csr.msg_en
  /\ call.op = "write"
  /\ call.offset = 7
  /\ Bit(call.value.lo, 0) = 0
  /\ irq = "deasserted"
  /\ csr.led = 15

\* C25: with the message feature enabled, a read of offset 6 returns the
\* low 16 bits of the value last written to offset 6, the upper 16 bits
\* being 0.
C25_SixteenBits ==
  (call.op = "read" /\ call.offset = 6 /\ csr.msg_en) =>
    /\ call.result.hi = 0
    /\ call.result.lo = csr.message.lo

\* The number of input bytes after which the first data byte of a write
\* run has had its eighth falling clock edge after the eighth bit.
LatchedAfter == 2 * Len(StartOps \o ByteOps(0) \o AckSlotOps \o ByteOps(0))

\* C21: in a write transaction the cursor is 0, as after load, until the
\* first data byte is complete and that byte's value from then on, through
\* the later data bytes and the STOP; the ninth-bit slot of the address
\* byte and of every data byte is acknowledged (0x10); and the EEPROM
\* image is the one load() built, in every state of every run.
C21_WriteLatchesOnce ==
  /\ eepData = EepImage(scn.bid)
  /\ scn.kind = "eepwrite" =>
       /\ eepAddr = IF Len(trace) >= LatchedAfter THEN scn.pkt[1] ELSE 0
       /\ i2cState \in {8, 17, 26, 35} => (i2cDrive = I2C_DRIVE_ACK /\ i2cWrite)

\* The third data byte was acknowledged and the cursor is still the first.
C21_Witness ==
  /\ scn.kind = "eepwrite"
  /\ scn.pkt = <<4, 9, 200>>
  /\ i2cState = 35
  /\ i2cByte = 200
  /\ i2cDrive = I2C_DRIVE_ACK
  /\ eepAddr = 4

\* The channel that was active when the byte at position k arrived.
ChannelAt(k) ==
  LET sel == { j \in 1..(k - 1) : trace[j].recv = "channel" }
  IN  IF sel = {} THEN 0 ELSE trace[CHOOSE j \in sel : \A i \in sel : i <= j].byte

\* The deframer took the byte at position k as a start-of-packet or as an
\* end-of-packet on channel c.
MarkAt(k, c, mark) == trace[k].recv = "packet" /\ trace[k].eff = mark /\ ChannelAt(k) = c

\* The last position up to k with a start-of-packet on channel c, 0: none.
LastSop(c, k) ==
  LET sops == { j \in 1..k : MarkAt(j, c, SOP) }
  IN  IF sops = {} THEN 0 ELSE CHOOSE j \in sops : \A i \in sops : i <= j

\* The data bytes appended on channel c at positions lo+1 .. hi, in order.
PushedSeq(c, lo, hi) ==
  LET mine(j) == trace[j].pushed # -1 /\ ChannelAt(j) = c
      at == SelectSeq([i \in 1..(hi - lo) |-> lo + i], mine)
  IN  [i \in 1..Len(at) |-> trace[at[i]].pushed]

\* C22: a dispatched packet holds exactly the data bytes appended on its
\* channel after the last start-of-packet there, none of those before it;
\* an end-of-packet mark set before that start-of-packet dispatches
\* nothing; and there is one response per dispatched packet, none for the
\* discarded bytes.
C22_SopDiscards ==
  /\ \A d \in 1..Len(disp) :
       LET from == LastSop(disp[d].chan, disp[d].at)
       IN  /\ from > 0
           /\ disp[d].bytes = PushedSeq(disp[d].chan, from, disp[d].at)
           /\ \E j \in (from + 1)..(disp[d].at - 1) : MarkAt(j, disp[d].chan, EOP)
           /\ \A e \in 1..Len(disp) : e # d => LastSop(disp[e].chan, disp[e].at) # from
  /\ \A k \in Responses : \E d \in 1..Len(disp) : disp[d].at = out[k].at
  /\ (Finished /\ scn.kind = "restarted") =>
       /\ Len(disp) = 1
       /\ disp[1].bytes = scn.pkt
       /\ Cardinality(Responses) = 1

\* Two bytes and an end-of-packet byte were discarded by a second
\* start-of-packet on channel 7, and the packet begun there was dispatched.
C22_Witness ==
  /\ Finished
  /\ scn.kind = "restarted"
  /\ scn.ch = 7
  /\ scn.pkt = <<66, 65>>
  /\ Len(scn.script) = Len(<<CH_PREFIX, 7, SOP, 65, 65, EOP, SOP, 66, EOP, 65>>)
  /\ Len(disp) = 1
  /\ disp[1].bytes = <<66, 65>>

\* The channels a start-of-packet was seen on.
ChannelsSeen == { ChannelAt(k) : k \in { j \in 1..Len(trace) : trace[j].eff = SOP } }

\* The position of the last dispatch on channel c, 0: none.
LastDispatch(c) ==
  LET ds == { disp[d].at : d \in { e \in 1..Len(disp) : disp[e].chan = c } }
  IN  IF ds = {} THEN 0 ELSE CHOOSE a \in ds : \A b \in ds : b <= a

\* C24: the buffer of every channel is a function of what arrived while
\* that channel was active: it is open exactly when a start-of-packet came
\* there after its last dispatch, it holds the data bytes appended there
\* since, its end-of-packet mark is set exactly when an end-of-packet byte
\* came there since; and once all input is handled each of the two
\* interleaved packets was dispatched once, on its channel, with its bytes.
C24_ChannelsIndependent ==
  /\ \A c \in ChannelsSeen :
       LET from == LastSop(c, Len(trace))
       IN  IF from > LastDispatch(c)
           THEN /\ c \in DOMAIN packets
                /\ packets[c].data = PushedSeq(c, from, Len(trace))
                /\ packets[c].eop = \E j \in (from + 1)..Len(trace) : MarkAt(j, c, EOP)
           ELSE c \notin DOMAIN packets
  /\ DOMAIN packets \subseteq ChannelsSeen
  /\ (Finished /\ scn.kind = "interleaved") =>
       /\ Len(disp) = 2
       /\ \A i \in 1..2 : \E d \in 1..2 :
            /\ disp[d].chan = PacketChannels[i]
            /\ disp[d].bytes = SelectSeq(PacketTokens[i], LAMBDA b : b \notin {SOP, EOP})

\* A packet with its end-of-packet mark set waits on channel 0 while the
\* bytes of the other packet are appended on channel 7.
C24_Witness ==
  /\ scn.kind = "interleaved"
  /\ channel = 7
  /\ DOMAIN packets = {0, 7}
  /\ packets[0].eop
  /\ packets[0].data = <<65>>
  /\ packets[7].data = <<97, 98>>

\* The receiver that took the byte a step handled, "none" for a step that
\* handled no byte.
Taken == IF Len(trace') > Len(trace) THEN trace'[Len(trace')].recv ELSE "none"

\* C26: a step that handles a command prefix or a command byte leaves the
\* open buffers with their marks, the active channel and both escape flags
\* as they were; a step that handles a byte in the packet deframer or the
\* channel receiver, or resolves a memory access of a packet, leaves the
\* bit counter, the shift register, the direction, the address cursor, the
\* drive level and the previous command byte as they were.
C26_Step ==
  /\ Taken \in {"prefix", "command"} =>
       <<packets, channel, escaped3, escaped7>>' = <<packets, channel, escaped3, escaped7>>
  /\ Taken \in {"packet", "channel", "none"} =>
       <<i2cState, i2cByte, i2cWrite, eepAddr, i2cDrive, lastCommand>>'
         = <<i2cState, i2cByte, i2cWrite, eepAddr, i2cDrive, lastCommand>>

C26_SubProtocolsApart == [][C26_Step]_vars

\* A command was handled between an escape marker and the byte it
\* escapes, inside an open packet, and the escape was still applied.
C26_Witness ==
  /\ Len(trace) >= 4
  /\ trace[Len(trace)].recv = "packet"
  /\ trace[Len(trace)].byte = 26
  /\ trace[Len(trace)].pushed = CMD_PREFIX
  /\ trace[Len(trace) - 1].recv = "command"
  /\ trace[Len(trace) - 3].byte = ESCAPE3
  /\ i2cDrive = I2C_DRIVE_RELEASE
  /\ lastCommand = trace[Len(trace) - 1].byte

=============================================================================
